---- MODULE Spec2Model ----
(***************************************************************************)
(* Model of the task manager of src/src/main.rs: the TaskManager struct    *)
(* (process table, ranking state, sysinfo System cache) and its message    *)
(* handler `update` (Tick, Sort, KillProcess), with `refresh` and          *)
(* `sort_processes` translated from the code.                              *)
(***************************************************************************)
EXTENDS Integers, Sequences, FiniteSets, TLC

VARIABLES
    processes,       \* TaskManager.processes: Vec<ProcessInfo>, the table
    sort_column,     \* TaskManager.sort_column
    sort_ascending,  \* TaskManager.sort_ascending
    system,          \* TaskManager.system: the process map held by sysinfo
    last             \* the message handled last and what its handler did

vars == <<processes, sort_column, sort_ascending, system, last>>

----------------------------------------------------------------------------
(* Bounds and value domains                                                *)

\* pids range over 1..MaxPid
MaxPid == 2

Pids == 1..MaxPid

\* enum SortColumn
SortColumns == {"Pid", "Name", "Memory", "Cpu"}

\* an f32: either a number (kept in tenths of a percent) or NaN
F32(v) == [nan |-> FALSE, v |-> v]
NaN == [nan |-> TRUE, v |-> 0]

\* Process names are strings, modelled as sequences of character codes
\* ("ab" = <<97, 98>>, "b" = <<98>>).
\* What sysinfo reports for one process: name, memory in bytes, cpu usage.
\* The three entries tie pairwise on exactly one of name, whole megabytes
\* and cpu.
RawProcs ==
    { [name |-> <<97, 98>>, memory |-> 1048576, cpu |-> F32(50)],
      [name |-> <<98>>, memory |-> 3145728, cpu |-> F32(50)],
      [name |-> <<97, 98>>, memory |-> 3500000, cpu |-> F32(95)] }

\* A snapshot: the process map of the System after refresh_all, pid -> entry
Snapshots == UNION { [S -> RawProcs] : S \in SUBSET Pids }

\* The orders in which a map with key set S can be iterated
Orders(S) ==
    { o \in [1..Cardinality(S) -> S] :
        \A i, j \in 1..Cardinality(S) : i # j => o[i] # o[j] }

----------------------------------------------------------------------------
(* Comparisons                                                             *)

Reverse(ord) ==
    CASE ord = "Less" -> "Greater"
      [] ord = "Greater" -> "Less"
      [] OTHER -> ord

\* Ord::cmp on integers (u32, u64)
CmpInt(a, b) ==
    IF a < b THEN "Less" ELSE IF a > b THEN "Greater" ELSE "Equal"

\* Ord::cmp on strings: lexicographic, a proper prefix is smaller
RECURSIVE CmpStr(_, _)
CmpStr(a, b) ==
    IF a = <<>> /\ b = <<>> THEN "Equal"
    ELSE IF a = <<>> THEN "Less"
    ELSE IF b = <<>> THEN "Greater"
    ELSE IF Head(a) # Head(b) THEN CmpInt(Head(a), Head(b))
    ELSE CmpStr(Tail(a), Tail(b))

\* f32::partial_cmp: None when either side is NaN
PartialCmp(a, b) ==
    IF a.nan \/ b.nan THEN "None" ELSE CmpInt(a.v, b.v)

UnwrapOr(opt, default) == IF opt = "None" THEN default ELSE opt

\* KeyCmp with the column never read: the pid compared in every case
KeyCmpAlwaysPid(a, b, column) == CmpInt(a.pid, b.pid)

\* The column's comparison, always ascending (the `match` of the closure)
KeyCmp(a, b, column) ==
    CASE column = "Pid" -> CmpInt(a.pid, b.pid)
      [] column = "Name" -> CmpStr(a.name, b.name)
      [] column = "Memory" -> CmpInt(a.memory, b.memory)
      [] column = "Cpu" -> UnwrapOr(PartialCmp(a.cpu, b.cpu), "Equal")

\* Compare with sort_ascending never read
CompareIgnoresDirection(a, b, column, ascending) == KeyCmp(a, b, column)

\* The closure given to sort_by
Compare(a, b, column, ascending) ==
    IF ascending THEN KeyCmp(a, b, column)
    ELSE Reverse(KeyCmp(a, b, column))

----------------------------------------------------------------------------
(* sort_processes: Vec::sort_by, a stable sort                             *)

\* x inserted into the sorted s behind every element that is not Greater
RECURSIVE Insert(_, _, _, _)
Insert(s, x, column, ascending) ==
    IF s = <<>> THEN <<x>>
    ELSE IF Compare(s[Len(s)], x, column, ascending) = "Greater"
         THEN Append(Insert(SubSeq(s, 1, Len(s) - 1), x, column, ascending),
                     s[Len(s)])
         ELSE Append(s, x)

RECURSIVE SortBy(_, _, _)
SortBy(s, column, ascending) ==
    IF s = <<>> THEN <<>>
    ELSE Insert(SortBy(SubSeq(s, 1, Len(s) - 1), column, ascending),
                s[Len(s)], column, ascending)

\* SortProcesses as an ascending sort whose result is reversed as a whole
\* when the direction is descending
SortProcessesReversesWhole(table, column, ascending) ==
    IF ascending THEN SortBy(table, column, TRUE)
    ELSE [i \in 1..Len(table) |->
            SortBy(table, column, TRUE)[Len(table) + 1 - i]]

\* SortProcesses that puts the rows in pid order before it sorts them: rows
\* tied on the column end in pid order, not in the order they were found in
SortProcessesFromPidOrder(table, column, ascending) ==
    SortBy(SortBy(table, "Pid", TRUE), column, ascending)

SortProcesses(table, column, ascending) == SortBy(table, column, ascending)

----------------------------------------------------------------------------
(* refresh                                                                 *)

\* BuildInfo with decimal megabytes (divisions by 1000)
BuildInfoDecimalMegabytes(pid, raw) ==
    [pid |-> pid,
     name |-> raw.name,
     memory |-> (raw.memory \div 1000) \div 1000,
     cpu |-> raw.cpu]

\* The ProcessInfo built from one entry of the process map
BuildInfo(pid, raw) ==
    [pid |-> pid,
     name |-> raw.name,
     memory |-> (raw.memory \div 1024) \div 1024,
     cpu |-> raw.cpu]

\* .iter().map(..).collect() over the map, iterated in the order o
Collect(snap, o) == [i \in 1..Len(o) |-> BuildInfo(o[i], snap[o[i]])]

\* The table refresh leaves, for the snapshot snap iterated in the order o
Refreshed(snap, o, column, ascending) ==
    SortProcesses(Collect(snap, o), column, ascending)

\* What refresh can build under each ranking state: the process map that
\* refresh_all leaves and the table built from it, one for each order in
\* which the map may be iterated
RefreshOutcomes ==
    [column \in SortColumns, ascending \in BOOLEAN |->
        UNION { { [system |-> snap,
                   processes |-> Refreshed(snap, o, column, ascending)] :
                  o \in Orders(DOMAIN snap) } : snap \in Snapshots }]

\* Refresh that also puts the ranking state back to (Pid, ascending)
RefreshResetsRanking ==
    { [system |-> r.system,
       processes |-> r.processes,
       sort_column |-> "Pid",
       sort_ascending |-> TRUE] :
      r \in RefreshOutcomes["Pid", TRUE] }

\* Refresh that extends the table with the new rows instead of replacing it
RefreshKeepsOldRows ==
    { [system |-> r.system,
       processes |-> SortProcesses(processes \o r.processes,
                                   sort_column, sort_ascending),
       sort_column |-> sort_column,
       sort_ascending |-> sort_ascending] :
      r \in RefreshOutcomes[sort_column, sort_ascending] }

\* refresh(): the states of the TaskManager it can leave
Refresh ==
    { [system |-> r.system,
       processes |-> r.processes,
       sort_column |-> sort_column,
       sort_ascending |-> sort_ascending] :
      r \in RefreshOutcomes[sort_column, sort_ascending] }

\* The collaborator calls and table writes of refresh, in order
RefreshCalls == <<"refresh_all", "assign", "sort">>

----------------------------------------------------------------------------
(* Messages                                                                *)

TickMsg == [type |-> "Tick", column |-> "-", pid |-> 0]
SortMsg(c) == [type |-> "Sort", column |-> c, pid |-> 0]
KillMsg(p) == [type |-> "KillProcess", column |-> "-", pid |-> p]
NewMsg == [type |-> "new", column |-> "-", pid |-> 0]

\* What is recorded of a handled message: its kind and column, the ranking
\* state it found, whether the process map it found held the pid of the
\* message, the calls it made in order, for a KillProcess whether a process
\* with the pid existed in the operating system when the handler ran and
\* what kill() returned ("none": not called), what the handler returned,
\* nth: 1 for a Sort that changed the active column, 2 for the same Sort
\* handled right after such a one, 3 for the same Sort handled right after
\* that, 0 otherwise, and table: the rows a Sort
\* of the active column found (empty for every other message)
Recorded(msg) == [type |-> msg.type, column |-> msg.column]

Handled(msg, calls, alive, killed) ==
    [msg |-> Recorded(msg),
     column |-> sort_column,
     ascending |-> sort_ascending,
     inmap |-> (msg.pid \in DOMAIN system),
     calls |-> calls,
     alive |-> alive,
     killed |-> killed,
     ret |-> "Command::none",
     nth |-> IF msg.type = "Sort" /\ msg.column # sort_column THEN 1
             ELSE IF msg.type = "Sort" /\ last.msg = Recorded(msg) /\ last.nth = 1
                  THEN 2
             ELSE IF msg.type = "Sort" /\ last.msg = Recorded(msg) /\ last.nth = 2
                  THEN 3
             ELSE 0,
     table |-> IF msg.type = "Sort" /\ msg.column = sort_column THEN processes
               ELSE <<>>]

----------------------------------------------------------------------------
(* Application::new                                                        *)

Init ==
    \E r \in RefreshOutcomes["Pid", TRUE] :
        /\ system = r.system
        /\ sort_column = "Pid"
        /\ sort_ascending = TRUE
        /\ processes = r.processes
        /\ last = [msg |-> Recorded(NewMsg), column |-> "Pid", ascending |-> TRUE,
                   inmap |-> FALSE, calls |-> RefreshCalls, alive |-> FALSE, killed |-> "none",
                   ret |-> "Command::none", nth |-> 0, table |-> <<>>]

----------------------------------------------------------------------------
(* Application::update                                                     *)

\* Message::Tick
Tick ==
    \E r \in Refresh :
        /\ system' = r.system
        /\ processes' = r.processes
        /\ sort_column' = r.sort_column
        /\ sort_ascending' = r.sort_ascending
        /\ last' = Handled(TickMsg, RefreshCalls, FALSE, "none")

\* The ranking state after Message::Sort(column)
SortColumnAfter(column) == column

\* SortAscendingAfter without the toggle
SortAscendingAfterNeverToggles(column) == TRUE

\* SortAscendingAfter without the reset to ascending on a new column
SortAscendingAfterKeepsDirection(column) ==
    IF sort_column = column THEN ~sort_ascending ELSE sort_ascending

SortAscendingAfter(column) ==
    IF sort_column = column THEN ~sort_ascending ELSE TRUE

\* Sort that refreshes the table instead of sorting the rows it holds
SortRefreshes(column) ==
    /\ sort_column' = SortColumnAfter(column)
    /\ sort_ascending' = SortAscendingAfter(column)
    /\ \E r \in RefreshOutcomes[sort_column', sort_ascending'] :
          /\ system' = r.system
          /\ processes' = r.processes
    /\ last' = Handled(SortMsg(column), RefreshCalls, FALSE, "none")

\* Message::Sort(column)
Sort(column) ==
    /\ sort_column' = SortColumnAfter(column)
    /\ sort_ascending' = SortAscendingAfter(column)
    /\ processes' = SortProcesses(processes, sort_column', sort_ascending')
    /\ last' = Handled(SortMsg(column), <<"sort">>, FALSE, "none")
    /\ UNCHANGED system

\* Found with no lookup in the process map: every pid is taken as present
FoundWithoutLookup(pid) == TRUE

\* self.system.process(pid): the entry of the process map, if any
Found(pid) == pid \in DOMAIN system

\* KillAttempts with the lookup unwrapped instead of matched by `if let`:
\* the handler panics, and has no outcome, when the pid is not found
KillAttemptsUnwrapsLookup(pid) ==
    IF Found(pid)
    THEN { [calls |-> <<"process", "kill">>, alive |-> TRUE, killed |-> "true"],
           [calls |-> <<"process", "kill">>, alive |-> TRUE, killed |-> "false"],
           [calls |-> <<"process", "kill">>, alive |-> FALSE, killed |-> "false"] }
    ELSE {}

\* The `if let` of the KillProcess handler: the calls made before the
\* refresh. alive: whether a process with this pid exists in the operating
\* system when the handler runs; kill() sends the signal and returns whether
\* that succeeded, which it cannot when no such process exists.
KillAttempts(pid) ==
    IF Found(pid)
    THEN { [calls |-> <<"process", "kill">>, alive |-> TRUE, killed |-> "true"],
           [calls |-> <<"process", "kill">>, alive |-> TRUE, killed |-> "false"],
           [calls |-> <<"process", "kill">>, alive |-> FALSE, killed |-> "false"] }
    ELSE { [calls |-> <<"process">>, alive |-> a, killed |-> "none"] :
           a \in BOOLEAN }

\* KillResults with refresh() moved into the `if let`: no refresh when the
\* pid is not found
KillResultsRefreshInsideIf(pid) ==
    { [state |-> r, calls |-> k.calls \o RefreshCalls,
       alive |-> k.alive, killed |-> k.killed] :
      r \in Refresh, k \in { a \in KillAttempts(pid) : a.killed # "none" } }
    \cup
    { [state |-> [system |-> system, processes |-> processes,
                  sort_column |-> sort_column,
                  sort_ascending |-> sort_ascending],
       calls |-> k.calls, alive |-> k.alive, killed |-> k.killed] :
      k \in { a \in KillAttempts(pid) : a.killed = "none" } }

\* The KillProcess handler: the attempt, then refresh() in every case. The
\* result of kill() is dropped (let _ =), and whatever it was, the map
\* refresh_all gives next is the operating system's to decide (the process
\* may not be gone yet, or the pid may be in use again).
KillResults(pid) ==
    { [state |-> r, calls |-> k.calls \o RefreshCalls,
       alive |-> k.alive, killed |-> k.killed] :
      r \in Refresh, k \in KillAttempts(pid) }

\* Message::KillProcess(pid)
KillProcess(pid) ==
    \E k \in KillResults(pid) :
        /\ system' = k.state.system
        /\ processes' = k.state.processes
        /\ sort_column' = k.state.sort_column
        /\ sort_ascending' = k.state.sort_ascending
        /\ last' = Handled(KillMsg(pid), k.calls, k.alive, k.killed)

Next ==
    \/ Tick
    \/ \E column \in SortColumns : Sort(column)
    \/ \E pid \in Pids : KillProcess(pid)

Spec == Init /\ [][Next]_vars

----------------------------------------------------------------------------
(* The record builder alone: new() from its struct literal, over a process *)
(* map of one process whose entry ranges over the byte counts below        *)

\* Byte counts around the kilobyte and megabyte boundaries, up to the
\* largest integer the checker holds
BuildBytes ==
    { 0, 1, 1023, 1024, 1025, 1000000, 1048575, 1048576, 1048577,
      2097151, 2097152, 3145728, 1073741823, 1073741824, 2147483647 }

\* cpu usage above 100 (250.0) and NaN included
BuildRaws ==
    [name : { <<>>, <<97, 98>> },
     memory : BuildBytes,
     cpu : { F32(0), F32(2500), NaN }]

\* new(): the struct literal, the System holding its process map, before
\* the call of refresh
InitBuild ==
    \E pid \in Pids, raw \in BuildRaws :
        /\ system = [p \in {pid} |-> raw]
        /\ sort_column = "Pid"
        /\ sort_ascending = TRUE
        /\ processes = <<>>
        /\ last = [msg |-> [type |-> "literal", column |-> "-"],
                   column |-> "Pid", ascending |-> TRUE, inmap |-> FALSE,
                   calls |-> <<>>, alive |-> FALSE, killed |-> "none",
                   ret |-> "-", nth |-> 0, table |-> <<>>]

\* new(): the call of refresh, over the process map as it is
BuildRecord ==
    /\ last.msg.type = "literal"
    /\ \E o \in Orders(DOMAIN system) :
         processes' = Refreshed(system, o, sort_column, sort_ascending)
    /\ last' = Handled(NewMsg, RefreshCalls, FALSE, "none")
    /\ UNCHANGED <<system, sort_column, sort_ascending>>

NextBuild == BuildRecord

SpecBuild == InitBuild /\ [][NextBuild]_vars

----------------------------------------------------------------------------
(* The task manager over pids 10 and 20, for the end-to-end scenario       *)

ScenarioPids == {10, 20}

\* "a" with 3145728 bytes and cpu 1.0, "b" with 1048576 bytes and cpu 9.5
ScenarioRawA == [name |-> <<97>>, memory |-> 3145728, cpu |-> F32(10)]
ScenarioRawB == [name |-> <<98>>, memory |-> 1048576, cpu |-> F32(95)]

\* The snapshot of the scenario: pid 10 is "a", pid 20 is "b"
ScenarioSnapshot ==
    [p \in ScenarioPids |-> IF p = 10 THEN ScenarioRawA ELSE ScenarioRawB]

ScenarioSnapshots ==
    UNION { [S -> {ScenarioRawA, ScenarioRawB}] : S \in SUBSET ScenarioPids }

\* RefreshOutcomes over the snapshots of the scenario
ScenarioOutcomes ==
    [column \in SortColumns, ascending \in BOOLEAN |->
        UNION { { [system |-> snap,
                   processes |-> Refreshed(snap, o, column, ascending)] :
                  o \in Orders(DOMAIN snap) } : snap \in ScenarioSnapshots }]

\* new()
InitScenario ==
    \E r \in ScenarioOutcomes["Pid", TRUE] :
        /\ system = r.system
        /\ sort_column = "Pid"
        /\ sort_ascending = TRUE
        /\ processes = r.processes
        /\ last = [msg |-> Recorded(NewMsg), column |-> "Pid",
                   ascending |-> TRUE, inmap |-> FALSE,
                   calls |-> RefreshCalls, alive |-> FALSE, killed |-> "none",
                   ret |-> "Command::none", nth |-> 0, table |-> <<>>]

\* Message::Tick
ScenarioTick ==
    \E r \in ScenarioOutcomes[sort_column, sort_ascending] :
        /\ system' = r.system
        /\ processes' = r.processes
        /\ last' = Handled(TickMsg, RefreshCalls, FALSE, "none")
        /\ UNCHANGED <<sort_column, sort_ascending>>

NextScenario ==
    \/ ScenarioTick
    \/ \E column \in SortColumns : Sort(column)

SpecScenario == InitScenario /\ [][NextScenario]_vars

----------------------------------------------------------------------------
(* refresh over process maps whose cpu values may be NaN, from the point   *)
(* where the rows are collected and sort_processes is about to run         *)

CpuPids == {1, 2, 3}

CpuRaws ==
    { [name |-> <<97>>, memory |-> 1048576, cpu |-> c] :
      c \in {NaN, F32(10), F32(50)} }

CpuSnapshots == UNION { [S -> CpuRaws] : S \in SUBSET CpuPids }

\* Whether the closure is a total order on the rows of the table (with
\* ties): asking in the other direction gives the reverse answer, and Less
\* and Equal are transitive. It is on every table whose keys are all
\* comparable; NaN is Equal to 1.0 and to 5.0, which are not Equal.
TotalOrderOn(table, column, ascending) ==
    \A i, j, k \in DOMAIN table :
        LET c(x, y) == Compare(table[x], table[y], column, ascending)
        IN  /\ c(i, j) = Reverse(c(j, i))
            /\ c(i, j) = "Less" /\ c(j, k) = "Less" => c(i, k) = "Less"
            /\ c(i, j) = "Equal" /\ c(j, k) = "Equal" => c(i, k) = "Equal"

\* The rows of the table in every order
RowOrders(table) ==
    { [i \in DOMAIN table |-> table[o[i]]] : o \in Orders(DOMAIN table) }

\* Vec::sort_by as the standard library specifies it: the stable sort when
\* the closure is a total order on the rows; when it is not, the order of
\* the rows is unspecified and the call may panic, with every row still in
\* the Vec
SortByOutcomes(table, column, ascending) ==
    IF TotalOrderOn(table, column, ascending)
    THEN { [ret |-> "Command::none",
            table |-> SortProcesses(table, column, ascending)] }
    ELSE { [ret |-> r, table |-> t] :
           r \in {"Command::none", "panic"}, t \in RowOrders(table) }

\* Inside refresh(), the rows collected and not sorted yet
InitCpu ==
    \E snap \in CpuSnapshots, ascending \in BOOLEAN :
        \E o \in Orders(DOMAIN snap) :
            /\ system = snap
            /\ sort_column = "Cpu"
            /\ sort_ascending = ascending
            /\ processes = Collect(snap, o)
            /\ last = [msg |-> [type |-> "collected", column |-> "-"],
                       column |-> "Cpu", ascending |-> ascending,
                       inmap |-> FALSE, calls |-> <<"refresh_all", "assign">>,
                       alive |-> FALSE, killed |-> "none", ret |-> "-",
                       nth |-> 0, table |-> <<>>]

\* self.sort_processes() at the end of refresh(); table: the rows it found
SortCollected ==
    /\ last.msg.type = "collected"
    /\ \E r \in SortByOutcomes(processes, sort_column, sort_ascending) :
         /\ processes' = r.table
         /\ last' = [Handled(TickMsg, RefreshCalls, FALSE, "none")
                       EXCEPT !.ret = r.ret, !.table = processes]
    /\ UNCHANGED <<system, sort_column, sort_ascending>>

NextCpu == SortCollected

SpecCpu == InitCpu /\ [][NextCpu]_vars

----------------------------------------------------------------------------
(* Vocabulary of the properties                                            *)

ReverseSeq(s) == [i \in 1..Len(s) |-> s[Len(s) + 1 - i]]

Count(s, x) == Cardinality({ i \in DOMAIN s : s[i] = x })

\* t holds the elements of s, each as often as s does
IsPermutation(s, t) ==
    /\ Len(s) = Len(t)
    /\ \A i \in DOMAIN s : Count(s, s[i]) = Count(t, s[i])

\* Lexicographic order of strings, stated without recursion
LexLeq(a, b) ==
    \/ /\ Len(a) <= Len(b)
       /\ \A i \in 1..Len(a) : a[i] = b[i]
    \/ \E i \in 1..Len(a) :
         /\ i <= Len(b)
         /\ a[i] < b[i]
         /\ \A j \in 1..(i - 1) : a[j] = b[j]

\* The key of a under the column is at most the key of b
KeyLeq(a, b, column) ==
    CASE column = "Pid" -> a.pid <= b.pid
      [] column = "Name" -> LexLeq(a.name, b.name)
      [] column = "Memory" -> a.memory <= b.memory
      [] column = "Cpu" -> ~a.cpu.nan /\ ~b.cpu.nan /\ a.cpu.v <= b.cpu.v

KeyEq(a, b, column) == KeyLeq(a, b, column) /\ KeyLeq(b, a, column)

\* Adjacent rows are in the order of the column's keys, in the direction
Ordered(table, column, ascending) ==
    \A i \in 1..(Len(table) - 1) :
        IF ascending THEN KeyLeq(table[i], table[i + 1], column)
        ELSE KeyLeq(table[i + 1], table[i], column)

\* The table holds one row for each pid of the process map, and no other,
\* with the fields of that pid's entry
TableIsSnapshot(table, snap) ==
    /\ { table[i].pid : i \in DOMAIN table } = DOMAIN snap
    /\ Len(table) = Cardinality(DOMAIN snap)
    /\ \A i \in DOMAIN table :
         /\ table[i].name = snap[table[i].pid].name
         /\ table[i].memory = snap[table[i].pid].memory \div 1048576
         /\ table[i].cpu = snap[table[i].pid].cpu

\* The place of the row of a pid in a table
IndexOf(table, pid) == CHOOSE i \in DOMAIN table : table[i].pid = pid

\* Rows of equal key stand in `after` in the order they stand in `before`
TiesKeepOrder(before, after, column) ==
    \A i, j \in DOMAIN before :
        (i < j /\ KeyEq(before[i], before[j], column)) =>
            IndexOf(after, before[i].pid) < IndexOf(after, before[j].pid)

\* No two rows of the table have the same key
NoTies(table, column) ==
    \A i, j \in DOMAIN table :
        i # j => ~KeyEq(table[i], table[j], column)

CallCount(calls, c) == Cardinality({ i \in DOMAIN calls : calls[i] = c })

----------------------------------------------------------------------------
(* Properties                                                              *)

\* C1: a handled Sort(X) that found X the active column left the column in
\* place and the direction flipped; one that found another column active
\* left X the active column and the direction ascending, whatever the
\* direction was.
C1_SelectColumn ==
    \A X \in SortColumns :
        last.msg = Recorded(SortMsg(X)) =>
            IF X = last.column
            THEN sort_column = last.column /\ sort_ascending = ~last.ascending
            ELSE sort_column = X /\ sort_ascending = TRUE

\* A Sort(Name) handled with Name active and descending: back to ascending
C1_Witness ==
    /\ last.msg = Recorded(SortMsg("Name"))
    /\ last.column = "Name"
    /\ last.ascending = FALSE
    /\ sort_column = "Name"
    /\ sort_ascending = TRUE

C3_KillRefreshesOnce ==
    last.msg.type = "KillProcess" =>
        /\ CallCount(last.calls, "refresh_all") = 1
        /\ CallCount(last.calls, "assign") = 1
        /\ \A i, j \in DOMAIN last.calls :
             (last.calls[i] = "kill"
                /\ last.calls[j] \in {"refresh_all", "assign"}) => i < j
        /\ \A i, j \in DOMAIN last.calls :
             (last.calls[i] = "refresh_all" /\ last.calls[j] = "assign") => i < j
        /\ last.ret = "Command::none"
        /\ TableIsSnapshot(processes, system)
        /\ Ordered(processes, sort_column, sort_ascending)

\* A KillProcess whose kill() failed on a live process, which the fresh
\* snapshot still shows
C3_Witness ==
    /\ last.msg.type = "KillProcess"
    /\ last.alive
    /\ last.killed = "false"
    /\ Len(processes) = 2

\* C4 as claimed: a KillProcess for a pid with no live process made no
\* termination call, and refreshed.
C4_AsClaimed ==
    (last.msg.type = "KillProcess" /\ ~last.alive) =>
        /\ CallCount(last.calls, "kill") = 0
        /\ CallCount(last.calls, "refresh_all") = 1

\* C4, amended: a handled KillProcess(pid) made a termination call exactly
\* when pid was in the process map kept from the last refresh, whether or
\* not its process was still alive, and refreshed in every case: no call is
\* made only for a pid that the last snapshot does not hold.
C4_StalePidNoTermination ==
    last.msg.type = "KillProcess" =>
        /\ CallCount(last.calls, "kill") = (IF last.inmap THEN 1 ELSE 0)
        /\ CallCount(last.calls, "refresh_all") = 1
        /\ CallCount(last.calls, "assign") = 1

\* A KillProcess for a pid that was not in the map and had no live process:
\* no termination call, and the refresh was made
C4_Witness ==
    /\ last.msg.type = "KillProcess"
    /\ ~last.alive
    /\ ~last.inmap
    /\ last.calls = <<"process">> \o RefreshCalls

\* C5: every step that handles Sort makes no snapshot query and no
\* termination call, leaves the process map alone, and leaves in the table
\* the records it held, fields unchanged, in some order.
C5_SortOnlyReorders ==
    [][last'.msg.type = "Sort" =>
         /\ CallCount(last'.calls, "refresh_all") = 0
         /\ CallCount(last'.calls, "kill") = 0
         /\ system' = system
         /\ IsPermutation(processes, processes')]_vars

\* A Sort(Cpu) handled with Pid active that moved pid 2 before pid 1
C5_Witness ==
    /\ last.msg = Recorded(SortMsg("Cpu"))
    /\ last.column = "Pid"
    /\ Len(processes) = 2
    /\ processes[1].pid = 2
    /\ processes[2].pid = 1

\* C6: a handled Tick or KillProcess left the active column and the
\* direction as it found them, whether or not the pid was found and whatever
\* kill() returned.
C6_RankingChangedOnlyBySort ==
    last.msg.type \in {"Tick", "KillProcess"} =>
        /\ sort_column = last.column
        /\ sort_ascending = last.ascending

\* A Tick handled under (Memory, descending), which it left in place
C6_Witness ==
    /\ last.msg = Recorded(TickMsg)
    /\ last.column = "Memory"
    /\ last.ascending = FALSE
    /\ sort_column = "Memory"
    /\ sort_ascending = FALSE

\* C7: in every reachable state the table holds exactly the records of the
\* snapshot queried last: one row for each of its pids and no other, with
\* the fields built from it.
C7_TableIsLatestSnapshot == TableIsSnapshot(processes, system)

\* After a KillProcess whose kill() succeeded: the fresh snapshot holds
\* pid 2 alone, and so does the table
C7_Witness ==
    /\ last.msg.type = "KillProcess"
    /\ last.killed = "true"
    /\ DOMAIN system = {2}
    /\ Len(processes) = 1
    /\ processes[1].pid = 2

\* C8 as claimed: a Sort step that leaves the direction descending leaves
\* the whole-sequence reversal of the stable ascending sort of the table it
\* found.
C8_AsClaimed ==
    [][(last'.msg.type = "Sort" /\ ~sort_ascending') =>
         processes' = ReverseSeq(SortBy(processes, sort_column', TRUE))]_vars

\* C8, amended: a Sort step that leaves the direction descending leaves the
\* stable sort of the table it found under the reversed per-pair comparison:
\* the same records, keys non-increasing, records of equal key in the order
\* they had in the input. That is the whole-sequence reversal of the stable
\* ascending sort only when no two records have the same key.
C8_DescendingReversesComparator ==
    [][(last'.msg.type = "Sort" /\ ~sort_ascending') =>
         /\ IsPermutation(processes, processes')
         /\ Ordered(processes', sort_column', FALSE)
         /\ TiesKeepOrder(processes, processes', sort_column')
         /\ NoTies(processes, sort_column') =>
              processes' = ReverseSeq(SortBy(processes, sort_column', TRUE))]_vars

\* A Sort(Cpu) that left the direction descending over two rows of equal cpu
C8_Witness ==
    /\ last.msg = Recorded(SortMsg("Cpu"))
    /\ ~sort_ascending
    /\ Len(processes) = 2
    /\ processes[1].cpu = processes[2].cpu

\* C9: a Sort step for the active column (a toggle of the direction) leaves
\* every two records of equal key in the relative order they had before it.
C9_TiesSurviveToggle ==
    [][(last'.msg.type = "Sort" /\ last'.msg.column = sort_column) =>
         TiesKeepOrder(processes, processes', sort_column)]_vars

\* Name ascending toggled to descending over two rows of equal name, pid 1
\* first
C9_Witness ==
    /\ last.msg = Recorded(SortMsg("Name"))
    /\ last.column = "Name"
    /\ last.ascending = TRUE
    /\ ~sort_ascending
    /\ Len(processes) = 2
    /\ processes[1].name = processes[2].name
    /\ processes[1].pid = 1

\* C10 as claimed: the second of two Sort(X) in a row finds the table
\* ascending by X and leaves it descending by X, whatever the ranking state
\* was before the first.
C10_AsClaimed ==
    [][last'.msg.type = "Sort" =>
         \A X \in SortColumns :
           (last.msg = Recorded(SortMsg(X)) /\ last'.msg = Recorded(SortMsg(X))) =>
             /\ sort_column = X /\ sort_column' = X
             /\ sort_ascending /\ Ordered(processes, X, TRUE)
             /\ ~sort_ascending' /\ Ordered(processes', X, FALSE)
             /\ IsPermutation(processes, processes')]_vars

\* C10, amended: of two Sort(X) in a row, the second finds and leaves X the
\* active column, keeps the record set, and flips the direction the first
\* left, the table being ordered by X in the direction in force after each.
\* When X was not the active column before the first, that is ascending
\* after the first and descending after the second; when X was the active
\* column, the first leaves the opposite of the direction it found and the
\* second restores it.
C10_SortTwice ==
    [][last'.msg.type = "Sort" =>
         \A X \in SortColumns :
           (last.msg = Recorded(SortMsg(X)) /\ last'.msg = Recorded(SortMsg(X))) =>
             /\ sort_column = X /\ sort_column' = X
             /\ IsPermutation(processes, processes')
             /\ sort_ascending' = ~sort_ascending
             /\ Ordered(processes, X, sort_ascending)
             /\ Ordered(processes', X, sort_ascending')
             /\ last.column # X => (sort_ascending /\ ~sort_ascending')
             /\ last.column = X =>
                  (sort_ascending = ~last.ascending
                     /\ sort_ascending' = last.ascending)]_vars

\* Sort(Memory) handled twice in a row from another active column: two rows
\* of different memory, now descending
C10_Witness ==
    /\ last.msg = Recorded(SortMsg("Memory"))
    /\ last.nth = 2
    /\ sort_column = "Memory"
    /\ ~sort_ascending
    /\ Len(processes) = 2
    /\ processes[1].memory > processes[2].memory

\* C11: the record refresh builds from an entry of b bytes has memory
\* floor(b / 1048576), so 2 for 2097152 and 0 for 1000000, and the pid, the
\* name and the cpu of the entry unchanged, cpu above 100 included.
C11_MemoryIsFloorMegabytes ==
    last.msg.type = "new" =>
        /\ Len(processes) = Cardinality(DOMAIN system)
        /\ \A i \in DOMAIN processes :
             LET row == processes[i]
                 raw == system[row.pid]
             IN  /\ row.pid \in DOMAIN system
                 /\ raw.memory - row.memory * 1048576 \in 0..1048575
                 /\ raw.memory = 2097152 => row.memory = 2
                 /\ raw.memory = 1000000 => row.memory = 0
                 /\ row.name = raw.name
                 /\ row.cpu = raw.cpu

\* A record built from 1000000 bytes and a cpu usage of 250.0
C11_Witness ==
    /\ last.msg.type = "new"
    /\ Len(processes) = 1
    /\ system[processes[1].pid].memory = 1000000
    /\ processes[1].memory = 0
    /\ processes[1].cpu = F32(2500)

\* The pids of the rows of a table, in order
PidsOf(table) == [i \in DOMAIN table |-> table[i].pid]

\* C12: over the snapshot of the scenario, whatever the order the map is
\* iterated in: new() leaves (Pid, ascending) and the rows of pids 10, 20;
\* a Sort(Memory) handled from (Pid, ascending) leaves pid 20 with memory 1
\* before pid 10 with memory 3; a second Sort(Memory) right after it leaves
\* pids 10, 20 again.
C12_EndToEnd ==
    system = ScenarioSnapshot =>
        /\ last.msg.type = "new" =>
             /\ sort_column = "Pid" /\ sort_ascending
             /\ PidsOf(processes) = <<10, 20>>
        /\ (/\ last.msg = Recorded(SortMsg("Memory"))
            /\ last.column = "Pid" /\ last.ascending) =>
             processes =
               << [pid |-> 20, name |-> <<98>>, memory |-> 1, cpu |-> F32(95)],
                  [pid |-> 10, name |-> <<97>>, memory |-> 3, cpu |-> F32(10)] >>
        /\ (last.msg = Recorded(SortMsg("Memory")) /\ last.nth = 2) =>
             /\ sort_column = "Memory" /\ ~sort_ascending
             /\ PidsOf(processes) = <<10, 20>>

\* The end of the scenario: Sort(Memory) handled twice in a row over the
\* snapshot of the scenario
C12_Witness ==
    /\ system = ScenarioSnapshot
    /\ last.msg = Recorded(SortMsg("Memory"))
    /\ last.nth = 2
    /\ PidsOf(processes) = <<10, 20>>

\* C13: the table a refresh leaves is the same whatever the order the
\* process map is iterated in: after new(), a Tick or a KillProcess, every
\* iteration order of the map the System holds gives the rows of the table,
\* records tied under the active column included.
C13_AsClaimed ==
    last.msg.type \in {"new", "Tick", "KillProcess"} =>
        \A o \in Orders(DOMAIN system) :
            processes = Refreshed(system, o, sort_column, sort_ascending)

\* C14: new() performs the first refresh under (Pid, ascending), so every
\* state a message is handled in has a refreshed table; in every reachable
\* state Tick, every Sort(column) and every KillProcess(pid) can be handled,
\* the handler returns, and the table it leaves is populated: its rows are
\* the records of the snapshot the System holds.
C14_Lifecycle ==
    /\ last.msg.type \in {"new", "Tick", "Sort", "KillProcess"}
    /\ last.msg.type = "new" =>
         /\ last.calls = RefreshCalls
         /\ last.column = "Pid" /\ last.ascending
         /\ sort_column = "Pid" /\ sort_ascending
    /\ last.ret = "Command::none"
    /\ TableIsSnapshot(processes, system)
    /\ ENABLED Tick
    /\ \A column \in SortColumns : ENABLED Sort(column)
    /\ \A pid \in Pids : ENABLED KillProcess(pid)

\* A KillProcess handled for a pid that was not in the process map, over a
\* table of two rows, leaving a table of two rows
C14_Witness ==
    /\ last.msg.type = "KillProcess"
    /\ ~last.inmap
    /\ last.killed = "none"
    /\ Len(processes) = 2

\* C15: under the Cpu column every two rows of which one has a NaN cpu
\* compare Equal in both directions, the sort returns with no panic, and
\* the two rows are in the order the sort found them in.
C15_AsClaimed ==
    last.msg.type = "Tick" =>
        /\ last.ret = "Command::none"
        /\ \A i, j \in DOMAIN last.table :
             (i < j /\ (last.table[i].cpu.nan \/ last.table[j].cpu.nan)) =>
                /\ KeyCmp(last.table[i], last.table[j], "Cpu") = "Equal"
                /\ KeyCmp(last.table[j], last.table[i], "Cpu") = "Equal"
                /\ IndexOf(processes, last.table[i].pid)
                     < IndexOf(processes, last.table[j].pid)

\* C16: a Sort of the active column handled right after a Sort of the
\* active column (no other message in between) gives back the state the
\* first of the two found: the same column, the same direction and the same
\* rows position by position, rows tied on the column included.
C16_ToggleTwiceRestores ==
    [][(/\ last'.msg.type = "Sort"
        /\ last.msg.type = "Sort"
        /\ last.msg.column = last.column
        /\ last'.msg.column = last.msg.column) =>
           /\ sort_column' = last.column
           /\ sort_ascending' = last.ascending
           /\ processes' = last.table]_vars

\* Two Sorts of the active column handled in a row over a table whose two
\* rows are tied on the column and stand against the order of their pids
C16_Witness ==
    /\ last.nth = 3
    /\ last.msg.column = sort_column
    /\ Len(processes) = 2
    /\ KeyEq(processes[1], processes[2], sort_column)
    /\ processes[1].pid > processes[2].pid

\* C17: a Sort of a column B handled right after a Sort of a column A that
\* was not the active one, B other than A, leaves (B, ascending) and the
\* rows ascending by B, rows of equal B key in ascending order of their A
\* keys.
C17_PreviousOrderIsSecondary ==
    [][(/\ last'.msg.type = "Sort"
        /\ last.msg.type = "Sort"
        /\ last.msg.column # last.column
        /\ last'.msg.column # last.msg.column) =>
           /\ sort_column' = last'.msg.column
           /\ sort_ascending'
           /\ Ordered(processes', last'.msg.column, TRUE)
           /\ \A i, j \in DOMAIN processes' :
                (i < j /\ KeyEq(processes'[i], processes'[j],
                                last'.msg.column)) =>
                    KeyLeq(processes'[i], processes'[j], last.msg.column)]_vars

\* A Sort(Cpu) that found (Name, ascending), over two rows of equal cpu:
\* "ab" stands before "b" although its pid is the larger
C17_Witness ==
    /\ last.msg = Recorded(SortMsg("Cpu"))
    /\ last.column = "Name" /\ last.ascending
    /\ Len(processes) = 2
    /\ processes[1].cpu = processes[2].cpu
    /\ processes[1].name = <<97, 98>>
    /\ processes[2].name = <<98>>
    /\ processes[1].pid > processes[2].pid

====
